---- MODULE Spec2Model ----
(***************************************************************************)
(* AASHTO 1993 flexible pavement calculator (SN1.py, the bisection         *)
(* variant; SN.py shares get_zr, the input controls and the capacity       *)
(* check).                                                                 *)
(*                                                                         *)
(* Numbers.  The program computes in double precision floats.  Here every  *)
(* real is a fixed-point integer:                                          *)
(*   sn, logarithms, layer sums      units of 1/FScale  (1e-6)             *)
(*   w18 (widget)                    hundredths of a million ESAL          *)
(*   w18_calc, w18_target_units      ESAL                                  *)
(*   reliability                     tenths of a percent                   *)
(*   zr                              thousandths                           *)
(*   so, a_i, m_i                    hundredths                            *)
(*   pi, pt, delta_psi, d_i          tenths                                *)
(* log10 and 10**x are computed digit by digit (Log10, Pow10), products    *)
(* and quotients by long multiplication and division, so that no           *)
(* intermediate value leaves 32 bits.  Against the float program the       *)
(* computed W18 differs by less than 0.05 percent (the tolerance of the    *)
(* solver is 1 percent).                                                   *)
(***************************************************************************)
EXTENDS Integers, Sequences, FiniteSets, TLC

\* Resolution of the fixed-point reals: 1.0 is FScale.
FScale == 1000000

\* Largest W18 represented; a larger value of 10**log_w18 saturates here
\* (the float saturates at inf). Every target W18 is at most half of it.
WMax == 2000000000

\* Python's None (and the value of a local not yet bound).
None == -1

(***************************************************************************)
(* Input controls (sidebar): the values each widget is driven to.          *)
(***************************************************************************)
\* w18: number_input, min 0.01, no maximum, default 5.0 (millions).
W18Values == {1, 500, 100000}

\* reliability: slider 50..99 (integers), default 95.
ReliabilityValues == {500, 510, 900, 950, 960}

\* so: number_input 0.30..0.50, default 0.45.
SoValues == {30, 45}

\* pi: number_input 3.0..5.0, default 4.5.
PiValues == {30, 45}

\* pt: number_input 1.5..3.0, default 2.5.
PtValues == {25, 30}

\* mr: number_input 1000..20000, default 7500.
MrValues == {1000, 7500}

\* Layer controls (a1, d1, a2, m2, d2, a3, m3, d3), defaults first.
LayerValues ==
    { [a1 |-> 40, d1 |-> 40, a2 |-> 14, m2 |-> 100, d2 |-> 60,
       a3 |-> 11, m3 |-> 100, d3 |-> 80],
      [a1 |-> 20, d1 |-> 10, a2 |-> 5, m2 |-> 50, d2 |-> 0,
       a3 |-> 5, m3 |-> 50, d3 |-> 0],
      [a1 |-> 50, d1 |-> 120, a2 |-> 40, m2 |-> 120, d2 |-> 240,
       a3 |-> 25, m3 |-> 120, d3 |-> 240] }

(***************************************************************************)
(* Float arithmetic                                                        *)
(***************************************************************************)
Abs(x) == IF x < 0 THEN -x ELSE x

RECURSIVE Pow10Int(_)
\* 10**k for an integer k >= 0.
Pow10Int(k) == IF k = 0 THEN 1 ELSE 10 * Pow10Int(k - 1)

\* a * b for fixed-point a, b in [0, 10): long multiplication, base 100.
MulFix(a, b) ==
    a * (b \div 1000000)
    + (a * ((b \div 10000) % 100)) \div 100
    + (a * ((b \div 100) % 100)) \div 10000
    + (a * (b % 100)) \div 1000000

RECURSIVE DivDigits(_, _, _, _)
\* Long division: k more decimal digits of the quotient q, remainder r.
DivDigits(q, r, b, k) ==
    IF k = 0 THEN q
    ELSE DivDigits(q * 10 + (r * 10) \div b, (r * 10) % b, b, k - 1)

\* a / b for a at scale FScale and b > 0 at scale FScale/10; result at FScale.
DivFix(a, b) ==
    IF a < 0 THEN -DivDigits((-a) \div b, (-a) % b, b, 5)
    ELSE DivDigits(a \div b, a % b, b, 5)

RECURSIVE NormMant(_)
\* Mantissa of x > 0 in [1, 10).
NormMant(x) ==
    IF x >= 10 * FScale THEN NormMant(x \div 10)
    ELSE IF x < FScale THEN NormMant(x * 10)
    ELSE x

RECURSIVE NormExp(_)
\* Decimal exponent of x > 0: x = NormMant(x) * 10**NormExp(x).
NormExp(x) ==
    IF x >= 10 * FScale THEN NormExp(x \div 10) + 1
    ELSE IF x < FScale THEN NormExp(x * 10) - 1
    ELSE 0

\* 10**(2**-k) for k = 1..20, as fixed-point reals.
Pow10Roots ==
    << 3162278, 1778279, 1333521, 1154782, 1074608, 1036633, 1018152,
       1009035, 1004507, 1002251, 1001125, 1000562, 1000281, 1000141,
       1000070, 1000035, 1000018, 1000009, 1000004, 1000002 >>

\* Binary digits computed by Log10 and consumed by Pow10Frac.
NBits == Len(Pow10Roots)

RECURSIVE LogBits(_, _, _)
\* log10 of a mantissa y in [1, 10): k binary digits by repeated squaring,
\* w the weight of the previous digit.
LogBits(y, w, k) ==
    IF k = 0 THEN 0
    ELSE LET y2 == MulFix(y, y)
         IN  IF y2 >= 10 * FScale
             THEN (w \div 2) + LogBits(y2 \div 10, w \div 2, k - 1)
             ELSE LogBits(y2, w \div 2, k - 1)

\* np.log10(x) for x > 0.
Log10(x) == NormExp(x) * FScale + LogBits(NormMant(x), FScale, NBits)

RECURSIVE Pow10Bits(_, _, _)
\* Multiplies m by 10**(2**-k) for every binary digit k.. of the fraction f.
Pow10Bits(m, f, k) ==
    IF k > NBits THEN m
    ELSE IF 2 * f >= FScale
         THEN Pow10Bits(MulFix(m, Pow10Roots[k]), 2 * f - FScale, k + 1)
         ELSE Pow10Bits(m, 2 * f, k + 1)

\* 10**f for a fraction 0 <= f < 1: a mantissa in [1, 10).
Pow10Frac(f) == Pow10Bits(FScale, f, 1)

\* 10**x as a count of ESAL (an integer), saturating at WMax.
Pow10(x) ==
    LET e == x \div FScale
        m == Pow10Frac(x % FScale)
    IN  IF e >= 10 \/ (e = 9 /\ m >= WMax \div 1000) THEN WMax
        ELSE IF e >= 6 THEN m * Pow10Int(e - 6)
        ELSE IF e <= -2 THEN 0
        ELSE m \div Pow10Int(6 - e)

(***************************************************************************)
(* get_zr                                                                  *)
(***************************************************************************)
\* The table of get_zr: reliability (tenths of a percent) -> ZR (thousandths).
zr_values ==
    (500 :> 0) @@ (600 :> -253) @@ (700 :> -524) @@ (750 :> -674) @@
    (800 :> -841) @@ (850 :> -1037) @@ (900 :> -1282) @@ (950 :> -1645) @@
    (990 :> -2327) @@ (999 :> -3090)

\* A lookup that never finds its key.
get_zr_default(reliability) == -1645

\* zr_values.get(reliability, -1.645)
get_zr(reliability) ==
    IF reliability \in DOMAIN zr_values THEN zr_values[reliability] ELSE -1645

(***************************************************************************)
(* calculate_w18                                                           *)
(***************************************************************************)
\* term1 = zr * so
term1(zr, so) == zr * so * 10

\* term2 = 9.36 * np.log10(sn + 1) - 0.20
term2(sn) == (936 * Log10(sn + FScale)) \div 100 - 200000

\* 0.40 + 1094 / (sn + 1)**5.19, at scale FScale/10.
term3_den(sn) ==
    LET lp == (519 * Log10(sn + FScale)) \div 100
        pm == Pow10Frac(lp % FScale)
        pe == lp \div FScale
    IN  40000 + ((1094000000 \div (pm \div 100)) * 1000) \div Pow10Int(pe)

\* term3 = np.log10(delta_psi / (4.2 - 1.5)) / (0.40 + 1094 / (sn + 1)**5.19)
term3(sn, delta_psi) ==
    DivFix(Log10((delta_psi * FScale) \div 27), term3_den(sn))

\* term4 = 2.32 * np.log10(mr) - 8.07
term4(mr) == (232 * (Log10(mr) + 6 * FScale)) \div 100 - 8070000

\* calculate_w18(sn, zr, so, delta_psi, mr), for sn >= -1 and delta_psi >= 0.
\* sn = -1:        1094 / 0.0 raises ZeroDivisionError, caught: None.
\* delta_psi = 0:  np.log10(0) = -inf (a warning, no exception), term3 = -inf,
\*                 log_w18 = -inf and 10**log_w18 = 0.0.
calculate_w18(sn, zr, so, delta_psi, mr) ==
    IF sn + FScale = 0 THEN None
    ELSE IF delta_psi = 0 THEN 0
    ELSE Pow10(term1(zr, so) + term2(sn) + term3(sn, delta_psi) + term4(mr))

(***************************************************************************)
(* solve_for_sn                                                            *)
(***************************************************************************)
\* Default of the parameter max_iterations.
max_iterations == 100

\* Default of the parameter tolerance, in percent.
tolerance == 1

\* w18_target_units = w18_target * 1e6
w18_target_units(w18_target) == w18_target * 10000

\* A loop that runs its body once more than range(max_iterations) does.
LoopContinuesOnceMore(k) == k <= max_iterations

\* for i in range(max_iterations): the body runs for index k.
LoopContinues(k) == k < max_iterations

\* sn_mid = (sn_low + sn_high) / 2, rounded to the nearest representable
\* value, a tie to the even one (IEEE 754 round-half-even).
Midpoint(low, high) ==
    LET s == low + high
        h == s \div 2
    IN  IF s % 2 = 0 THEN h
        ELSE IF h % 2 = 0 THEN h ELSE h + 1

\* error < w18_target_units * tolerance
CloseEnough(w, target) == Abs(w - target) < (target * tolerance) \div 100

(***************************************************************************)
(* Capacity check                                                          *)
(***************************************************************************)
\* sn_provided = a1 * d1 + a2 * d2 * m2 + a3 * d3 * m3
ProvidedSN(l) ==
    l.a1 * l.d1 * 1000 + l.a2 * l.d2 * l.m2 * 10 + l.a3 * l.d3 * l.m3 * 10

\* The difference with its operands exchanged.
DifferenceSwapped(provided, required) == required - provided

\* difference = sn_provided - sn_solution
Difference(provided, required) == provided - required

\* delta = "OK" if difference >= 0 else "Insufficient"
DeltaLabel(diff) == IF diff >= 0 THEN "OK" ELSE "Insufficient"

\* if sn_provided >= sn_solution: success(adequate) else: error(inadequate)
Message(provided, required) ==
    IF provided >= required THEN "adequate" ELSE "inadequate"

\* if sn_solution and sn_solution > 0
Truthy(x) == x # None /\ x # 0 /\ x > 0

(***************************************************************************)
(* State                                                                   *)
(***************************************************************************)
VARIABLES
    w18, reliability, so, pi, pt, mr,        \* sidebar widgets
    pc,                                      \* position of the script run
    zr, delta_psi,                           \* locals of the main calculation
    i, sn_low, sn_high, sn_mid, w18_calc,    \* locals of solve_for_sn
    outcome,                                 \* the return statement taken
    sn_solution,                             \* value returned to the caller
    display, w18_verify,                     \* what the page shows
    layers, sn_provided, difference, delta_label, message

widgets == <<w18, reliability, so, pi, pt, mr>>

solver == <<i, sn_low, sn_high, sn_mid, w18_calc, outcome, sn_solution>>

page == <<display, w18_verify, layers, sn_provided, difference, delta_label,
          message>>

vars == <<widgets, pc, zr, delta_psi, solver, page>>

NoLayers ==
    [a1 |-> None, d1 |-> None, a2 |-> None, m2 |-> None, d2 |-> None,
     a3 |-> None, m3 |-> None, d3 |-> None]

\* A script run starts with no locals bound and an empty page.
FreshRun ==
    /\ zr' = None
    /\ delta_psi' = None
    /\ i' = 0
    /\ sn_low' = None
    /\ sn_high' = None
    /\ sn_mid' = None
    /\ w18_calc' = None
    /\ outcome' = "none"
    /\ sn_solution' = None
    /\ display' = "none"
    /\ w18_verify' = None
    /\ layers' = NoLayers
    /\ sn_provided' = None
    /\ difference' = None
    /\ delta_label' = "none"
    /\ message' = "none"

Init ==
    /\ w18 = 500
    /\ reliability = 950
    /\ so = 45
    /\ pi = 45
    /\ pt = 25
    /\ mr = 7500
    /\ pc = "idle"
    /\ zr = None
    /\ delta_psi = None
    /\ i = 0
    /\ sn_low = None
    /\ sn_high = None
    /\ sn_mid = None
    /\ w18_calc = None
    /\ outcome = "none"
    /\ sn_solution = None
    /\ display = "none"
    /\ w18_verify = None
    /\ layers = NoLayers
    /\ sn_provided = None
    /\ difference = None
    /\ delta_label = "none"
    /\ message = "none"

\* No script run is in progress: the page waits for the user.
Waiting == pc \in {"idle", "rendered"}

(***************************************************************************)
(* A widget change reruns the script with calculate = False: the page      *)
(* shows the hint and the reference tables, nothing is computed.           *)
(***************************************************************************)
SetW18 ==
    /\ Waiting
    /\ \E v \in W18Values : w18' = v
    /\ UNCHANGED <<reliability, so, pi, pt, mr>>
    /\ pc' = "idle"
    /\ FreshRun

SetReliability ==
    /\ Waiting
    /\ \E v \in ReliabilityValues : reliability' = v
    /\ UNCHANGED <<w18, so, pi, pt, mr>>
    /\ pc' = "idle"
    /\ FreshRun

SetSo ==
    /\ Waiting
    /\ \E v \in SoValues : so' = v
    /\ UNCHANGED <<w18, reliability, pi, pt, mr>>
    /\ pc' = "idle"
    /\ FreshRun

SetPi ==
    /\ Waiting
    /\ \E v \in PiValues : pi' = v
    /\ UNCHANGED <<w18, reliability, so, pt, mr>>
    /\ pc' = "idle"
    /\ FreshRun

SetPt ==
    /\ Waiting
    /\ \E v \in PtValues : pt' = v
    /\ UNCHANGED <<w18, reliability, so, pi, mr>>
    /\ pc' = "idle"
    /\ FreshRun

SetMr ==
    /\ Waiting
    /\ \E v \in MrValues : mr' = v
    /\ UNCHANGED <<w18, reliability, so, pi, pt>>
    /\ pc' = "idle"
    /\ FreshRun

(***************************************************************************)
(* The Calculate button: the main calculation up to the first iteration    *)
(* of solve_for_sn.                                                        *)
(***************************************************************************)
Calculate ==
    /\ Waiting
    /\ zr' = get_zr(reliability)
    /\ delta_psi' = pi - pt
    /\ pc' = "iterating"
    /\ i' = 0
    /\ sn_low' = FScale \div 10
    /\ sn_high' = 15 * FScale
    /\ sn_mid' = None
    /\ w18_calc' = None
    /\ outcome' = "none"
    /\ sn_solution' = None
    /\ display' = "none"
    /\ w18_verify' = None
    /\ layers' = NoLayers
    /\ sn_provided' = None
    /\ difference' = None
    /\ delta_label' = "none"
    /\ message' = "none"
    /\ UNCHANGED widgets

\* One iteration of the loop of solve_for_sn.
Iterate ==
    /\ pc = "iterating"
    /\ LoopContinues(i)
    /\ LET mid == Midpoint(sn_low, sn_high)
           w == calculate_w18(mid, zr, so, delta_psi, mr)
           target == w18_target_units(w18)
       IN  /\ sn_mid' = mid
           /\ w18_calc' = w
           /\ i' = i + 1
           /\ IF w = None
              THEN /\ outcome' = "EvaluationFailed"
                   /\ sn_solution' = None
                   /\ pc' = "returned"
                   /\ UNCHANGED <<sn_low, sn_high>>
              ELSE IF CloseEnough(w, target)
              THEN /\ outcome' = "Converged"
                   /\ sn_solution' = mid
                   /\ pc' = "returned"
                   /\ UNCHANGED <<sn_low, sn_high>>
              ELSE /\ sn_low' = IF w < target THEN mid ELSE sn_low
                   /\ sn_high' = IF w < target THEN sn_high ELSE mid
                   /\ UNCHANGED <<outcome, sn_solution, pc>>
    /\ UNCHANGED <<widgets, zr, delta_psi, page>>

\* The loop is exhausted: return sn_mid.
Exhausted ==
    /\ pc = "iterating"
    /\ ~LoopContinues(i)
    /\ outcome' = "MaxIterationsReached"
    /\ sn_solution' = sn_mid
    /\ pc' = "returned"
    /\ UNCHANGED <<widgets, zr, delta_psi, i, sn_low, sn_high, sn_mid,
                   w18_calc, page>>

\* The rest of the main calculation: result, verification, capacity check.
Render ==
    /\ pc = "returned"
    /\ pc' = "rendered"
    /\ \E l \in LayerValues :
          IF Truthy(sn_solution)
          THEN /\ display' = "success"
               /\ w18_verify' = calculate_w18(sn_solution, zr, so, delta_psi, mr)
               /\ layers' = l
               /\ sn_provided' = ProvidedSN(l)
               /\ difference' = Difference(ProvidedSN(l), sn_solution)
               /\ delta_label' =
                      DeltaLabel(Difference(ProvidedSN(l), sn_solution))
               /\ message' = Message(ProvidedSN(l), sn_solution)
          ELSE /\ display' = "failed"
               /\ UNCHANGED <<w18_verify, layers, sn_provided, difference,
                              delta_label, message>>
    /\ UNCHANGED <<widgets, zr, delta_psi, solver>>

Next ==
    \/ SetW18
    \/ SetReliability
    \/ SetSo
    \/ SetPi
    \/ SetPt
    \/ SetMr
    \/ Calculate
    \/ Iterate
    \/ Exhausted
    \/ Render

Spec == Init /\ [][Next]_vars

(***************************************************************************)
(* Claims                                                                  *)
(***************************************************************************)
\* The script is inside, or past, a call of solve_for_sn.
InRun == pc \in {"iterating", "returned", "rendered"}

\* solve_for_sn has returned.
Returned == pc \in {"returned", "rendered"}

\* f(0.1) and f(15.0) have opposite signs, f(SN) = calculate_w18(SN) - target.
Bracketed ==
    LET target == w18_target_units(w18)
        f_low == calculate_w18(FScale \div 10, zr, so, delta_psi, mr) - target
        f_high == calculate_w18(15 * FScale, zr, so, delta_psi, mr) - target
    IN  (f_low < 0 /\ f_high > 0) \/ (f_low > 0 /\ f_high < 0)

\* C1: when the target W18 is not bracketed by SN = 0.1 and SN = 15.0,
\* solve_for_sn ends in NoRootInBracket and returns no structural number.
C1_NoRootReported ==
    (Returned /\ ~Bracketed) =>
        (outcome = "NoRootInBracket" /\ sn_solution = None)

\* C2: a result returned because the loop ran max_iterations times without
\* meeting the tolerance is told apart by the caller from a converged one:
\* it is not presented as the required structural number.
C2_ExhaustionDistinguished ==
    (pc = "rendered" /\ outcome = "MaxIterationsReached") =>
        display # "success"

\* C3: every structural number solve_for_sn returns gives back the target:
\* |calculate_w18(SN) - target| < target * tolerance.
C3_RoundTrip ==
    (Returned /\ sn_solution # None) =>
        CloseEnough(calculate_w18(sn_solution, zr, so, delta_psi, mr),
                    w18_target_units(w18))

\* C4: an evaluation outside the domain of the equation (delta_psi <= 0)
\* yields no numeric value, and the solve ends with no structural number
\* returned or displayed.
C4_DomainErrorSurfaced ==
    (InRun /\ delta_psi <= 0) =>
        /\ (i > 0 => w18_calc = None)
        /\ sn_solution = None
        /\ display # "success"

\* C5: with terminal serviceability >= initial serviceability a calculation
\* request never reaches the solver.
C5_InvalidInputRejected ==
    (pt >= pi) => (pc # "iterating" /\ outcome = "none")

\* The tabulated reliabilities next below and next above r.
KeyBelow(r) ==
    CHOOSE k \in DOMAIN zr_values :
        k < r /\ \A j \in DOMAIN zr_values : j < r => j <= k

KeyAbove(r) ==
    CHOOSE k \in DOMAIN zr_values :
        k > r /\ \A j \in DOMAIN zr_values : j > r => j >= k

\* C6: for a reliability that is not a tabulated key, the run goes on only
\* with a ZR interpolated between the two bracketing table entries, never
\* with the default -1.645.
C6_NoSilentDefault ==
    (InRun /\ reliability \notin DOMAIN zr_values) =>
        /\ zr_values[KeyAbove(reliability)] < zr
        /\ zr < zr_values[KeyBelow(reliability)]
        /\ zr # -1645

\* C7: for every tabulated reliability get_zr returns the table entry
\* (-1.645 for 95, 0.000 for 50), which is <= 0 and strictly decreasing as
\* the reliability increases.
C7_TableLookup ==
    /\ \A k \in DOMAIN zr_values : get_zr(k) = zr_values[k] /\ get_zr(k) <= 0
    /\ \A j, k \in DOMAIN zr_values : j < k => get_zr(j) > get_zr(k)
    /\ get_zr(950) = -1645
    /\ get_zr(500) = 0
    /\ (InRun /\ reliability = 950) => zr = -1645
    /\ (InRun /\ reliability = 500) => zr = 0
    /\ (InRun /\ reliability \in DOMAIN zr_values) =>
           (zr = zr_values[reliability] /\ zr <= 0)

\* C7: a run with the tabulated reliability 50 is under way.
C7_Witness == pc = "rendered" /\ reliability = 500 /\ zr = 0

\* C8: provided_sn = a1*d1 + a2*d2*m2 + a3*d3*m3; the design is reported
\* adequate exactly when provided_sn >= required_sn, exactly when the margin
\* is >= 0, and the margin indicator agrees with the message.
C8_CapacityCheck ==
    (pc = "rendered" /\ display = "success") =>
        /\ sn_provided =
               layers.a1 * layers.d1 * 1000
               + layers.a2 * layers.d2 * layers.m2 * 10
               + layers.a3 * layers.d3 * layers.m3 * 10
        /\ difference = sn_provided - sn_solution
        /\ (message = "adequate") <=> (sn_provided >= sn_solution)
        /\ (message = "adequate") <=> (difference >= 0)
        /\ (delta_label = "OK") <=> (message = "adequate")
        /\ (delta_label = "Insufficient") <=> (message = "inadequate")

\* C8: a design found inadequate has been shown.
C8_Witness ==
    /\ pc = "rendered"
    /\ display = "success"
    /\ message = "inadequate"
    /\ delta_label = "Insufficient"
    /\ sn_provided < sn_solution

\* C9: a call of solve_for_sn evaluates the equation at most max_iterations
\* times (each of its steps is one more evaluation or its return), ends in one of Converged, MaxIterationsReached and
\* NoRootInBracket, and once it has returned its result stays as it is until
\* another calculation is requested.
C9_Terminates ==
    /\ [](i <= max_iterations)
    /\ [](Returned =>
            outcome \in {"Converged", "MaxIterationsReached", "NoRootInBracket"})
    /\ [](pc = "iterating" => outcome = "none")
    /\ [][outcome # "none" =>
            \/ (i' = i /\ outcome' = outcome /\ sn_solution' = sn_solution)
            \/ (i' = 0 /\ outcome' = "none" /\ ~Returned')]_vars
    /\ [][pc = "iterating" => (i' = i + 1 \/ pc' = "returned")]_vars

\* C9: a call has ended after max_iterations evaluations.
C9_Witness ==
    pc = "returned" /\ outcome = "MaxIterationsReached" /\ i = max_iterations

\* C10: at the start of every iteration 0.1 <= sn_low < sn_high <= 15.0, and
\* every SN evaluated or returned lies strictly between 0.1 and 15.0.
C10_BracketInvariant ==
    /\ pc = "iterating" =>
           /\ FScale \div 10 <= sn_low
           /\ sn_low < sn_high
           /\ sn_high <= 15 * FScale
    /\ (InRun /\ i > 0) =>
           (FScale \div 10 < sn_mid /\ sn_mid < 15 * FScale)
    /\ (Returned /\ sn_solution # None) =>
           (FScale \div 10 < sn_solution /\ sn_solution < 15 * FScale)
====
